---------------------------- MODULE Spec2Model ----------------------------
(***************************************************************************)
(* Spark SQL string functions of velox/functions/sparksql/String.h:        *)
(* substring_index, the general-form and fixed-form trim family, substr.   *)
(*                                                                         *)
(* Every function is pure.  The state is the invocation being evaluated    *)
(* (`call`: the entry point and its arguments), what it produced (`ret`)   *)
(* and, for substr, the values its int32_t locals took (`locals`).         *)
(* A string is a sequence of bytes 0..255; byte offsets are      *)
(* 0-based as in the source, so the byte at offset i of s is s[i + 1].     *)
(***************************************************************************)
EXTENDS Integers, Sequences, FiniteSets, TLC

VARIABLES call, ret, locals

vars == <<call, ret, locals>>

(***************************************************************************)
(* Bounds of the model.                                                    *)
(***************************************************************************)
\* Longest substring_index input, in bytes.
MaxStrLen == 4
\* Longest substring_index delimiter, in bytes.
MaxDelimLen == 2
\* Largest |count| drawn besides the int32 extremes.
MaxCount == 5
\* Longest trim input, in codepoints.
MaxSrcChars == 3
\* Longest trim set, in codepoints.
MaxTrimChars == 2
\* Longest enumerated substr input, in codepoints.
MaxSubstrChars == 3

(***************************************************************************)
(* int32_t and size_t.                                                     *)
(***************************************************************************)
INT32_MAX == 2147483647
INT32_MIN == (-2147483647) - 1

\* std::string_view::npos is SIZE_MAX.  A size_t value is written as its
\* two's-complement representative: v < 2^63 as v, and 2^64 - k as -k, so
\* that size_t addition and subtraction are integer addition and subtraction
\* and SIZE_MAX is -1.
npos == -1

\* a <= b on size_t values.
SizeLe(a, b) ==
    IF a < 0 THEN (b < 0 /\ a <= b)
    ELSE (b < 0 \/ a <= b)

Min(a, b) == IF a <= b THEN a ELSE b
Max(a, b) == IF a >= b THEN a ELSE b

\* Whether a + b and a - b leave the int32_t range.
AddOverflows(a, b) ==
    IF b >= 0 THEN a > INT32_MAX - b ELSE a < INT32_MIN - b

SubOverflows(a, b) ==
    IF b >= 0 THEN a < INT32_MIN + b ELSE a > INT32_MAX + b

\* a + b and a - b reduced modulo 2^32 into the int32_t range: what
\* __builtin_add_overflow stores, and what two's-complement hardware yields.
WrapAdd(a, b) ==
    IF ~AddOverflows(a, b) THEN a + b
    ELSE IF b >= 0 THEN (a + INT32_MIN) + (b + INT32_MIN)
    ELSE (a - INT32_MIN) + (b - INT32_MIN)

WrapSub(a, b) ==
    IF ~SubOverflows(a, b) THEN a - b
    ELSE IF b >= 0 THEN (a - INT32_MIN) - (b + INT32_MIN)
    ELSE (a + INT32_MIN) - (b - INT32_MIN)

(***************************************************************************)
(* Byte strings.                                                           *)
(***************************************************************************)
\* The bytes [from, from + n) of s.
Slice(s, from, n) == SubSeq(s, from + 1, from + n)

\* Whether v occurs in s at byte offset i.
MatchAt(s, v, i) ==
    /\ i >= 0
    /\ i + Len(v) <= Len(s)
    /\ Slice(s, i, Len(v)) = v

\* std::string_view::find(v, pos): the lowest offset >= pos at which v
\* occurs, npos when there is none (an empty v occurs at every offset up to
\* size()).
Find(s, v, pos) ==
    LET hits == {i \in 0..Len(s) : SizeLe(pos, i) /\ MatchAt(s, v, i)}
    IN  IF hits = {} THEN npos
        ELSE CHOOSE i \in hits : \A j \in hits : i <= j

\* std::string_view::rfind(v, pos): the highest offset <= pos at which v
\* occurs, npos when there is none.
RFind(s, v, pos) ==
    LET hits == {i \in 0..Len(s) : SizeLe(i, pos) /\ MatchAt(s, v, i)}
    IN  IF hits = {} THEN npos
        ELSE CHOOSE i \in hits : \A j \in hits : i >= j

(***************************************************************************)
(* Results (out_type<Varchar>).                                            *)
(***************************************************************************)
\* result.setEmpty()
SetEmpty == [kind |-> "empty", off |-> 0, len |-> 0]

\* result.setNoCopy(StringView(input.data() + off, len))
SetNoCopy(off, len) == [kind |-> "view", off |-> off, len |-> len]

\* The call did not return: a build that traps on signed overflow.
Trapped == [kind |-> "trap", off |-> 0, len |-> 0]

(***************************************************************************)
(* substring_index                                                         *)
(***************************************************************************)
\* The values `-count` can take.  For count = INT32_MIN the negation
\* overflows int32_t, which is undefined: a two's-complement build yields
\* INT32_MIN again, a build that traps on signed overflow aborts the call
\* (trap = TRUE).
NegateOutcomes(count) ==
    IF count = INT32_MIN
    THEN {[trap |-> FALSE, value |-> INT32_MIN], [trap |-> TRUE, value |-> 0]}
    ELSE {[trap |-> FALSE, value |-> -count]}

\* ForwardScan resuming after the end of the previous occurrence instead of
\* one byte after its start.
RECURSIVE ForwardScanPastMatch(_, _, _, _, _)
ForwardScanPastMatch(str, delim, count, n, index) ==
    IF ~(n < count) THEN index
    ELSE LET found == Find(str, delim, index)
         IN  IF found = npos THEN npos
             ELSE IF n + 1 < count
                  THEN ForwardScanPastMatch(str, delim, count, n + 1,
                                            found + Max(1, Len(delim)))
                  ELSE found

\* while (n++ < count) { index = find(delim, index); if (npos) break;
\*                       if (n < count) index++; }
\* n is the value the loop test reads; the result is the final index.
RECURSIVE ForwardScan(_, _, _, _, _)
ForwardScan(str, delim, count, n, index) ==
    IF ~(n < count) THEN index
    ELSE LET found == Find(str, delim, index)
         IN  IF found = npos THEN npos
             ELSE IF n + 1 < count
                  THEN ForwardScan(str, delim, count, n + 1, found + 1)
                  ELSE found

\* while (n++ < -count) { index = rfind(delim, index); if (npos) break;
\*                        if (n < -count) index--; }
\* negCount is the value of -count; index-- on 0 wraps to SIZE_MAX.
RECURSIVE BackwardScan(_, _, _, _, _)
BackwardScan(str, delim, negCount, n, index) ==
    IF ~(n < negCount) THEN index
    ELSE LET found == RFind(str, delim, index)
         IN  IF found = npos THEN npos
             ELSE IF n + 1 < negCount
                  THEN BackwardScan(str, delim, negCount, n + 1, found - 1)
                  ELSE found

\* SubstringIndexFunction::call, with negCount the outcome of -count (read
\* only when count < 0).
SubstringIndex(str, delim, count, negCount) ==
    IF count = 0 THEN SetEmpty
    ELSE IF count < 0 /\ negCount.trap THEN Trapped
    ELSE
      LET strLen == Len(str)
          delimLen == Len(delim)
          index == IF count > 0
                   THEN ForwardScan(str, delim, count, 0, 0)
                   ELSE BackwardScan(str, delim, negCount.value, 0, strLen - 1)
      IN  IF index = npos THEN SetNoCopy(0, strLen)
          ELSE IF count > 0 THEN SetNoCopy(0, index)
          ELSE SetNoCopy(index + delimLen, strLen - index - delimLen)

(***************************************************************************)
(* UTF-8 (velox/external/utf8proc, used by the trim family and substr).    *)
(***************************************************************************)
\* utf8proc_char_length: the byte length of the codepoint whose first byte
\* is b, from b's high bits.
CharLength(b) ==
    IF b < 128 THEN 1
    ELSE IF b \div 32 = 6 THEN 2
    ELSE IF b \div 16 = 14 THEN 3
    ELSE 4

\* utf8proc_char_first_byte: b is not a continuation byte (10xxxxxx).
IsFirstByte(b) == b \div 64 # 2

(***************************************************************************)
(* trim / ltrim / rtrim with a trim set (TrimFunctionBase).                *)
(***************************************************************************)
\* std::string_view::find_first_not_of(chars): the lowest offset whose byte
\* is not in chars, npos when every byte is.
FindFirstNotOf(s, chars) ==
    LET hits == {i \in 0..(Len(s) - 1) : \A k \in 1..Len(chars) : chars[k] # s[i + 1]}
    IN  IF hits = {} THEN npos
        ELSE CHOOSE i \in hits : \A j \in hits : i <= j

\* std::string_view::find_last_not_of(chars): the highest such offset.
FindLastNotOf(s, chars) ==
    LET hits == {i \in 0..(Len(s) - 1) : \A k \in 1..Len(chars) : chars[k] # s[i + 1]}
    IN  IF hits = {} THEN npos
        ELSE CHOOSE i \in hits : \A j \in hits : i >= j

\* TrimCallAscii looking for the last kept byte in the whole of srcStr and
\* taking its offset as the result size.
TrimCallAsciiWholeView(trimStr, srcStr, leftTrim, rightTrim) ==
    IF srcStr = <<>> THEN SetEmpty
    ELSE IF trimStr = <<>> THEN SetNoCopy(0, Len(srcStr))
    ELSE
      LET first == IF leftTrim THEN FindFirstNotOf(srcStr, trimStr) ELSE 0
      IN  IF first = npos THEN SetEmpty
          ELSE
            LET lastIndex == FindLastNotOf(srcStr, trimStr)
            IN  IF ~rightTrim THEN SetNoCopy(first, Len(srcStr) - first)
                ELSE IF lastIndex = npos THEN SetEmpty
                ELSE SetNoCopy(first, lastIndex + 1)

\* TrimFunctionBase<T, leftTrim, rightTrim>::callAscii
TrimCallAscii(trimStr, srcStr, leftTrim, rightTrim) ==
    IF srcStr = <<>> THEN SetEmpty
    ELSE IF trimStr = <<>> THEN SetNoCopy(0, Len(srcStr))
    ELSE
      LET resultStartIndex ==
              IF leftTrim THEN FindFirstNotOf(srcStr, trimStr) ELSE 0
      IN  IF resultStartIndex = npos THEN SetEmpty
          ELSE
            LET resultSize == Len(srcStr) - resultStartIndex
                lastIndex ==
                    FindLastNotOf(Slice(srcStr, resultStartIndex, resultSize), trimStr)
            IN  IF ~rightTrim THEN SetNoCopy(resultStartIndex, resultSize)
                ELSE IF lastIndex = npos THEN SetEmpty
                ELSE SetNoCopy(resultStartIndex, lastIndex + 1)

\* TrimLeftScan removing at most one leading codepoint.
TrimLeftOnce(trimStr, srcStr, resultBegin) ==
    IF ~(resultBegin < Len(srcStr)) THEN resultBegin
    ELSE LET charLen == CharLength(srcStr[resultBegin + 1])
             c == Slice(srcStr, resultBegin, charLen)
         IN  IF Find(trimStr, c, 0) = npos THEN resultBegin
             ELSE resultBegin + charLen

\* The left scan of TrimFunctionBase::call: advance resultBegin codepoint by
\* codepoint while the codepoint's bytes are found in trimStr.
RECURSIVE TrimLeftScan(_, _, _)
TrimLeftScan(trimStr, srcStr, resultBegin) ==
    IF ~(resultBegin < Len(srcStr)) THEN resultBegin
    ELSE LET charLen == CharLength(srcStr[resultBegin + 1])
             c == Slice(srcStr, resultBegin, charLen)
         IN  IF Find(trimStr, c, 0) = npos THEN resultBegin
             ELSE TrimLeftScan(trimStr, srcStr, resultBegin + charLen)

\* TrimRightScan taking every byte for a codepoint of its own.
RECURSIVE TrimRightScanBytewise(_, _, _, _, _)
TrimRightScanBytewise(trimStr, srcStr, resultBegin, curPos, resultEnd) ==
    IF ~(curPos >= resultBegin) THEN resultEnd
    ELSE LET c == Slice(srcStr, curPos, 1)
         IN  IF Find(trimStr, c, 0) = npos THEN resultEnd
             ELSE TrimRightScanBytewise(trimStr, srcStr, resultBegin,
                                        curPos - 1, curPos)

\* The right scan of TrimFunctionBase::call: walk curPos backward byte by
\* byte; at each first byte, the codepoint is [curPos, resultEnd), and the
\* scan stops when its bytes are not found in trimStr.
RECURSIVE TrimRightScan(_, _, _, _, _)
TrimRightScan(trimStr, srcStr, resultBegin, curPos, resultEnd) ==
    IF ~(curPos >= resultBegin) THEN resultEnd
    ELSE IF IsFirstByte(srcStr[curPos + 1])
    THEN LET c == Slice(srcStr, curPos, resultEnd - curPos)
         IN  IF Find(trimStr, c, 0) = npos THEN resultEnd
             ELSE TrimRightScan(trimStr, srcStr, resultBegin, curPos - 1, curPos)
    ELSE TrimRightScan(trimStr, srcStr, resultBegin, curPos - 1, resultEnd)

\* TrimCall whose right scan never examines the byte at resultBegin.
TrimCallRightStopsEarly(trimStr, srcStr, leftTrim, rightTrim) ==
    IF srcStr = <<>> THEN SetEmpty
    ELSE IF trimStr = <<>> THEN SetNoCopy(0, Len(srcStr))
    ELSE
      LET resultBegin == IF leftTrim THEN TrimLeftScan(trimStr, srcStr, 0) ELSE 0
          resultEnd ==
              IF rightTrim
              THEN TrimRightScan(trimStr, srcStr, resultBegin + 1,
                                 Len(srcStr) - 1, Len(srcStr))
              ELSE Len(srcStr)
      IN  SetNoCopy(resultBegin, resultEnd - resultBegin)

\* TrimFunctionBase<T, leftTrim, rightTrim>::call
TrimCall(trimStr, srcStr, leftTrim, rightTrim) ==
    IF srcStr = <<>> THEN SetEmpty
    ELSE IF trimStr = <<>> THEN SetNoCopy(0, Len(srcStr))
    ELSE
      LET resultBegin == IF leftTrim THEN TrimLeftScan(trimStr, srcStr, 0) ELSE 0
          resultEnd ==
              IF rightTrim
              THEN TrimRightScan(trimStr, srcStr, resultBegin,
                                 Len(srcStr) - 1, Len(srcStr))
              ELSE Len(srcStr)
      IN  SetNoCopy(resultBegin, resultEnd - resultBegin)

(***************************************************************************)
(* trim / ltrim / rtrim of spaces (TrimSpaceFunctionBase).                 *)
(***************************************************************************)
\* stringImpl::isAsciiSpace
IsAsciiSpace(b) == b = 32

RECURSIVE SkipSpacesForward(_, _)
SkipSpacesForward(srcStr, pos) ==
    IF pos < Len(srcStr) /\ IsAsciiSpace(srcStr[pos + 1])
    THEN SkipSpacesForward(srcStr, pos + 1)
    ELSE pos

RECURSIVE SkipSpacesBackward(_, _, _)
SkipSpacesBackward(srcStr, begin, end) ==
    IF end > begin /\ IsAsciiSpace(srcStr[end])
    THEN SkipSpacesBackward(srcStr, begin, end - 1)
    ELSE end

\* TrimSpaceFunctionBase<T, leftTrim, rightTrim>::call, that is
\* stringImpl::trimAsciiWhiteSpace<leftTrim, rightTrim, isAsciiSpace>.
TrimSpaceCall(srcStr, leftTrim, rightTrim) ==
    IF srcStr = <<>> THEN SetEmpty
    ELSE
      LET begin == IF leftTrim THEN SkipSpacesForward(srcStr, 0) ELSE 0
      IN  IF begin >= Len(srcStr) THEN SetEmpty
          ELSE LET end == IF rightTrim
                          THEN SkipSpacesBackward(srcStr, begin, Len(srcStr))
                          ELSE Len(srcStr)
               IN  SetNoCopy(begin, end - begin)

(***************************************************************************)
(* substr (SubstrFunction).                                                *)
(***************************************************************************)
\* stringImpl::length<isAscii>: the number of bytes of an ASCII input, the
\* number of codepoints (bytes that are not continuation bytes) otherwise.
Length(isAscii, input) ==
    IF isAscii THEN Len(input)
    ELSE Cardinality({i \in 1..Len(input) : IsFirstByte(input[i])})

\* The byte offset reached from byte offset `from` after advancing n
\* codepoints, saturating at the end of the buffer.
RECURSIVE Advance(_, _, _)
Advance(input, from, n) ==
    IF n <= 0 \/ from >= Len(input) THEN Min(from, Len(input))
    ELSE Advance(input, from + CharLength(input[from + 1]), n - 1)

\* stringCore::getByteRange<isAscii>(data, start, length): the byte range
\* [first, second) of the codepoints start .. start + length - 1 (1-based).
GetByteRange(isAscii, input, start, length) ==
    IF isAscii
    THEN [first |-> start - 1, second |-> start + length - 1]
    ELSE LET first == Advance(input, 0, start - 1)
         IN  [first |-> first, second |-> Advance(input, first, length)]

\* The locals of a doCall that returned at `if (length <= 0)`.
NoWindow ==
    [empty |-> TRUE, start |-> 0, last |-> 0, length |-> 0,
     lastOverflow |-> FALSE, overflowed |-> {}]

\* SubstrWindow computing `last = start + length - 1` in plain int32_t
\* arithmetic, without __builtin_add_overflow.
SubstrWindowUncheckedLast(numCharacters, start, length) ==
    IF length <= 0 THEN NoWindow
    ELSE
      LET start1 == IF start = 0 THEN 1 ELSE start
          start2 == IF start1 < 0
                    THEN WrapAdd(WrapAdd(numCharacters, start1), 1)
                    ELSE start1
          last0 == WrapSub(WrapAdd(start2, length), 1)
          last == IF last0 > numCharacters THEN numCharacters ELSE last0
          start3 == IF start2 <= 0 THEN 1 ELSE start2
          length2 == WrapAdd(WrapSub(last, start3), 1)
      IN  [empty |-> length2 <= 0, start |-> start3, last |-> last,
           length |-> length2, lastOverflow |-> FALSE,
           overflowed |-> {step \in {"last"} : AddOverflows(start2, length)}]

\* SubstrWindow without `if (start == 0) start = 1`.
SubstrWindowZeroStart(numCharacters, start, length) ==
    IF length <= 0 THEN NoWindow
    ELSE
      LET start2 == IF start < 0
                    THEN WrapAdd(WrapAdd(numCharacters, start), 1)
                    ELSE start
          lastOverflow == AddOverflows(start2, length - 1)
          last0 == WrapAdd(start2, length - 1)
          last == IF lastOverflow \/ last0 > numCharacters
                  THEN numCharacters ELSE last0
          start3 == IF start2 <= 0 THEN 1 ELSE start2
          length2 == WrapAdd(WrapSub(last, start3), 1)
      IN  [empty |-> length2 <= 0, start |-> start3, last |-> last,
           length |-> length2, lastOverflow |-> lastOverflow,
           overflowed |-> {}]

\* The int32_t arithmetic of SubstrFunction::doCall, from `if (length <= 0)`
\* to the second `if (length <= 0)`: the window [start, start + length - 1]
\* of 1-based codepoint positions, or empty.  `overflowed` names the steps
\* outside __builtin_add_overflow whose exact value leaves the int32_t range
\* (undefined behaviour); the values carried on are the wrapped ones.
SubstrWindow(numCharacters, start, length) ==
    IF length <= 0 THEN NoWindow
    ELSE
      LET start1 == IF start = 0 THEN 1 ELSE start
          \* start = numCharacters + start + 1
          remapSum == WrapAdd(numCharacters, start1)
          start2 == IF start1 < 0 THEN WrapAdd(remapSum, 1) ELSE start1
          \* __builtin_add_overflow(start, length - 1, &last)
          lengthLess1 == WrapSub(length, 1)
          lastOverflow == AddOverflows(start2, lengthLess1)
          last0 == WrapAdd(start2, lengthLess1)
          last == IF lastOverflow \/ last0 > numCharacters
                  THEN numCharacters ELSE last0
          start3 == IF start2 <= 0 THEN 1 ELSE start2
          \* length = last - start + 1
          diff == WrapSub(last, start3)
          length2 == WrapAdd(diff, 1)
          overflowed ==
              {step \in {"remap"} :
                 start1 < 0 /\ (\/ AddOverflows(numCharacters, start1)
                                \/ AddOverflows(remapSum, 1))}
              \cup {step \in {"length - 1"} : SubOverflows(length, 1)}
              \cup {step \in {"length"} :
                      SubOverflows(last, start3) \/ AddOverflows(diff, 1)}
      IN  [empty |-> length2 <= 0, start |-> start3, last |-> last,
           length |-> length2, lastOverflow |-> lastOverflow,
           overflowed |-> overflowed]

\* The result doCall builds from its window.
SubstrResult(isAscii, input, window) ==
    IF window.empty THEN SetEmpty
    ELSE LET byteRange == GetByteRange(isAscii, input, window.start, window.length)
         IN  SetNoCopy(byteRange.first, byteRange.second - byteRange.first)

\* What a doCall can return: its result, or, when one of its unchecked
\* int32_t steps overflowed, also an aborted call (a build that traps on
\* signed overflow).
SubstrOutcomes(isAscii, input, window) ==
    {SubstrResult(isAscii, input, window)}
    \cup {r \in {Trapped} : window.overflowed # {}}

(***************************************************************************)
(* Inputs.                                                                 *)
(***************************************************************************)
\* All sequences over S of length at most n.
RECURSIVE SeqsUpTo(_, _)
SeqsUpTo(S, n) ==
    IF n = 0 THEN {<<>>}
    ELSE LET shorter == SeqsUpTo(S, n - 1)
         IN  shorter \cup {Append(s, x) : s \in {t \in shorter : Len(t) = n - 1}, x \in S}

\* 'a' and '.'
IndexBytes == {97, 46}

IndexStrings == SeqsUpTo(IndexBytes, MaxStrLen)
IndexDelims == SeqsUpTo(IndexBytes, MaxDelimLen)
IndexCounts == ((0 - MaxCount)..MaxCount) \cup {INT32_MIN, INT32_MAX}

\* The bytes of a sequence of codepoints.
RECURSIVE Flatten(_)
Flatten(chars) ==
    IF chars = <<>> THEN <<>> ELSE Head(chars) \o Flatten(Tail(chars))

\* ' ' and 'a'
AsciiCodepoints == {<<32>>, <<97>>}

\* U+00E9 (two bytes), U+20A9 (three bytes, ending in the continuation byte
\* of U+00E9), U+1F600 (four bytes).
WideCodepoints ==
    {<<195, 169>>, <<226, 130, 169>>, <<240, 159, 152, 128>>}

Codepoints == AsciiCodepoints \cup WideCodepoints

\* The modes of TrimFunction, LTrimFunction and RTrimFunction.
TrimModes ==
    {[leftTrim |-> TRUE, rightTrim |-> TRUE],
     [leftTrim |-> TRUE, rightTrim |-> FALSE],
     [leftTrim |-> FALSE, rightTrim |-> TRUE]}

\* The sequences of SeqsUpTo(S, n) that list no element twice.
DistinctSeqsUpTo(S, n) ==
    {s \in SeqsUpTo(S, n) : \A i, j \in 1..Len(s) : i # j => s[i] # s[j]}

\* Trim strings list each codepoint once, in any order.
TrimSources == SeqsUpTo(Codepoints, MaxSrcChars)
TrimSets == DistinctSeqsUpTo(Codepoints, MaxTrimChars)
AsciiTrimSources == SeqsUpTo(AsciiCodepoints, MaxSrcChars + 1)
AsciiTrimSets == DistinctSeqsUpTo(AsciiCodepoints, MaxTrimChars)

\* 'a', U+00E9 (two bytes), U+20A9 (three bytes), U+1F600 (four bytes)
SubstrCodepoints ==
    {<<97>>, <<195, 169>>, <<226, 130, 169>>, <<240, 159, 152, 128>>}

SubstrSources == SeqsUpTo(SubstrCodepoints, MaxSubstrChars)
AsciiSubstrSources == SeqsUpTo(AsciiCodepoints, MaxSubstrChars)

\* int32_t values for start and length: around zero, at both ends of the
\* range, and around half of it (where the sum of two values first leaves
\* the range).
Int32Samples ==
    LET m == MaxSubstrChars + 1
        half == INT32_MAX \div 2
    IN  ((0 - m)..m)
        \cup {INT32_MIN + k : k \in 0..m}
        \cup {INT32_MAX - k : k \in 0..m}
        \cup {half, half + 1, half + 2, (0 - half) - 1, (0 - half) - 2}

\* Codepoint counts of inputs too long to enumerate.
LongLengths ==
    {INT32_MAX - k : k \in 0..MaxSubstrChars} \cup {INT32_MAX \div 2 + 1}

(***************************************************************************)
(* Actions: one per entry point.  The functions keep no state between      *)
(* invocations, so every invocation starts from the state after            *)
(* construction and a behaviour evaluates one invocation.                  *)
(***************************************************************************)
NoCall == [fn |-> "none"]

Init ==
    /\ call = NoCall
    /\ ret = SetEmpty
    /\ locals = NoWindow

CallSubstringIndex ==
    /\ call = NoCall
    /\ \E str \in IndexStrings, delim \in IndexDelims, count \in IndexCounts :
        \E negCount \in NegateOutcomes(count) :
          /\ call' = [fn |-> "substring_index", input |-> str, delim |-> delim,
                      count |-> count]
          /\ ret' = SubstringIndex(str, delim, count, negCount)
          /\ UNCHANGED locals

NextIndex == CallSubstringIndex

SpecIndex == Init /\ [][NextIndex]_vars

\* The record of a trim-family invocation.  chars and trimChars are the
\* codepoints the caller's strings were encoded from.
TrimInvocation(fn, entry, mode, trimChars, chars) ==
    [fn |-> fn, entry |-> entry,
     leftTrim |-> mode.leftTrim, rightTrim |-> mode.rightTrim,
     trimChars |-> trimChars, trimStr |-> Flatten(trimChars),
     chars |-> chars, input |-> Flatten(chars)]

\* trim(trimStr, srcStr), ltrim, rtrim on the general entry point.
CallTrim ==
    /\ call = NoCall
    /\ \E mode \in TrimModes, trimChars \in TrimSets, chars \in TrimSources :
         /\ call' = TrimInvocation("trim", "call", mode, trimChars, chars)
         /\ ret' = TrimCall(Flatten(trimChars), Flatten(chars),
                            mode.leftTrim, mode.rightTrim)
         /\ UNCHANGED locals

\* trim(trimStr, srcStr), ltrim, rtrim on the ASCII entry point, which the
\* engine selects only when the arguments are ASCII.
CallTrimAscii ==
    /\ call = NoCall
    /\ \E mode \in TrimModes, trimChars \in AsciiTrimSets,
          chars \in AsciiTrimSources :
         /\ call' = TrimInvocation("trim", "callAscii", mode, trimChars, chars)
         /\ ret' = TrimCallAscii(Flatten(trimChars), Flatten(chars),
                                 mode.leftTrim, mode.rightTrim)
         /\ UNCHANGED locals

\* trim(srcStr), ltrim(srcStr), rtrim(srcStr).
CallTrimSpace ==
    /\ call = NoCall
    /\ \E mode \in TrimModes, chars \in TrimSources :
         /\ call' = TrimInvocation("trimSpace", "call", mode, <<>>, chars)
         /\ ret' = TrimSpaceCall(Flatten(chars), mode.leftTrim, mode.rightTrim)
         /\ UNCHANGED locals

NextTrim == CallTrim \/ CallTrimAscii \/ CallTrimSpace

SpecTrim == Init /\ [][NextTrim]_vars


\* The record of a substr invocation on an input of numCharacters codepoints.
SubstrInvocation(entry, chars, numCharacters, start, length) ==
    [fn |-> "substr", entry |-> entry, chars |-> chars,
     input |-> Flatten(chars), numCharacters |-> numCharacters,
     start |-> start, length |-> length]

\* substr(input, start, length) on the general entry point: doCall<false>.
CallSubstr ==
    /\ call = NoCall
    /\ \E chars \in SubstrSources, start \in Int32Samples,
          length \in Int32Samples :
         LET input == Flatten(chars)
             window == SubstrWindow(Length(FALSE, input), start, length)
         IN  /\ call' = SubstrInvocation("call", chars, Len(chars), start, length)
             /\ locals' = window
             /\ ret' \in SubstrOutcomes(FALSE, input, window)

\* substr(input, start, length) on the ASCII entry point: doCall<true>.
CallSubstrAscii ==
    /\ call = NoCall
    /\ \E chars \in AsciiSubstrSources, start \in Int32Samples,
          length \in Int32Samples :
         LET input == Flatten(chars)
             window == SubstrWindow(Length(TRUE, input), start, length)
         IN  /\ call' = SubstrInvocation("callAscii", chars, Len(chars),
                                         start, length)
             /\ locals' = window
             /\ ret' \in SubstrOutcomes(TRUE, input, window)

\* substr on the ASCII entry point with an input of up to INT32_MAX bytes.
\* doCall<true> reads only the input's size, so the input is given by its
\* size and the record holds no bytes.
CallSubstrAsciiLong ==
    /\ call = NoCall
    /\ \E numCharacters \in LongLengths, start \in Int32Samples,
          length \in Int32Samples :
         LET window == SubstrWindow(numCharacters, start, length)
         IN  /\ call' = SubstrInvocation("callAsciiLong", <<>>, numCharacters,
                                         start, length)
             /\ locals' = window
             /\ ret' \in SubstrOutcomes(TRUE, <<>>, window)

NextSubstr == CallSubstr \/ CallSubstrAscii \/ CallSubstrAsciiLong

SpecSubstr == Init /\ [][NextSubstr]_vars

\* Every entry point.
Next == NextIndex \/ NextTrim \/ NextSubstr

Spec == Init /\ [][Next]_vars

(***************************************************************************)
(* What a result denotes.                                                  *)
(***************************************************************************)
\* A result that is a byte sub-range of an input buffer of `size` bytes.
ViewWithin(size, r) ==
    r.kind = "view" => (0 <= r.off /\ 0 <= r.len /\ r.len <= size - r.off)

InBounds(input, r) == ViewWithin(Len(input), r)

\* The byte size of the invocation's input buffer.
InputSize ==
    IF call.fn = "substr" /\ call.entry = "callAsciiLong"
    THEN call.numCharacters
    ELSE Len(call.input)

\* What reading a view that leaves the input buffer yields: no string of the
\* model.
OutOfBuffer == <<-1>>

\* The bytes a result denotes within the input buffer.
Bytes(input, r) ==
    IF r.kind # "view" THEN <<>>
    ELSE IF InBounds(input, r) THEN Slice(input, r.off, r.len)
    ELSE OutOfBuffer

(***************************************************************************)
(* Properties of substring_index.                                          *)
(***************************************************************************)
\* The byte offsets at which v occurs in s; the empty string occurs at every
\* offset 0..Len(s).
Occurrences(s, v) == {i \in 0..Len(s) : MatchAt(s, v, i)}

\* The k-th lowest and the k-th highest element of a set of numbers.
KthLowest(S, k) == CHOOSE x \in S : Cardinality({y \in S : y < x}) = k - 1
KthHighest(S, k) == CHOOSE x \in S : Cardinality({y \in S : y > x}) = k - 1

\* |count| > k, for any int32 count.
AbsExceeds(count, k) ==
    \/ count = INT32_MIN
    \/ (IF count < 0 THEN -count ELSE count) > k

IsIndexCall == call.fn = "substring_index"

\* C1: when the delimiter occurs fewer than |count| times (count # 0),
\* substring_index returns the whole input unchanged.
C1_FewerOccurrencesWholeInput ==
    (/\ IsIndexCall
     /\ call.count # 0
     /\ AbsExceeds(call.count, Cardinality(Occurrences(call.input, call.delim))))
    => (/\ ret.kind # "trap"
        /\ InBounds(call.input, ret)
        /\ Bytes(call.input, ret) = call.input)

\* substring_index(".a", ".", -2): "." occurs once, at byte 0, and the result
\* is "a".
C1_FailingCall ==
    /\ IsIndexCall
    /\ call.input = <<46, 97>>
    /\ call.delim = <<46>>
    /\ call.count = -2
    /\ ret = SetNoCopy(1, 1)

\* C4: for count > 0 the result is the prefix of the input before the start
\* of the count-th occurrence from the left, overlapping occurrences
\* counted; for count = 0 the result is empty.
C4_PositiveCountPrefix ==
    IsIndexCall =>
      LET occ == Occurrences(call.input, call.delim)
      IN  /\ call.count = 0 => Bytes(call.input, ret) = <<>>
          /\ (call.count > 0 /\ Cardinality(occ) >= call.count)
               => ret = SetNoCopy(0, KthLowest(occ, call.count))

\* substring_index("aaa", "aa", 2) = "a": the second occurrence overlaps the
\* first.
C4_Witness ==
    /\ IsIndexCall
    /\ call.input = <<97, 97, 97>>
    /\ call.delim = <<97, 97>>
    /\ call.count = 2
    /\ Bytes(call.input, ret) = <<97>>

\* C5: for count < 0 with at least |count| occurrences, the result is the
\* suffix of the input after the end of the |count|-th occurrence from the
\* right, for every input and delimiter (empty ones included).
C5_NegativeCountSuffix ==
    (/\ IsIndexCall
     /\ call.count < 0
     /\ ~AbsExceeds(call.count, Cardinality(Occurrences(call.input, call.delim))))
    => LET p == KthHighest(Occurrences(call.input, call.delim), -call.count)
           after == p + Len(call.delim)
       IN  /\ InBounds(call.input, ret)
           /\ Bytes(call.input, ret)
                = Slice(call.input, after, Len(call.input) - after)

\* substring_index("a", "", -1): the last occurrence of the empty delimiter
\* is at offset 1, the end of the input, and the result is "a".
C5_FailingCall ==
    /\ IsIndexCall
    /\ call.input = <<97>>
    /\ call.delim = <<>>
    /\ call.count = -1
    /\ ret = SetNoCopy(0, 1)

\* C3: every result view is a byte sub-range of the input buffer:
\* 0 <= offset, 0 <= length, offset + length <= input byte length.
C3_ResultWithinInput ==
    call.fn # "none" => ViewWithin(InputSize, ret)

\* substring_index("a", "..", INT32_MIN) where -count wraps: the view starts
\* at offset 2 of a 1-byte input and its size is 1 - 2 as a size_t.
C3_FailingCall ==
    /\ IsIndexCall
    /\ call.input = <<97>>
    /\ call.delim = <<46, 46>>
    /\ call.count = INT32_MIN
    /\ ret = SetNoCopy(2, -1)

(***************************************************************************)
(* Properties of the trim family.                                          *)
(***************************************************************************)
IsTrimCall == call.fn = "trim" /\ call.entry = "call"
IsTrimAsciiCall == call.fn = "trim" /\ call.entry = "callAscii"
IsTrimSpaceCall == call.fn = "trimSpace"

\* Whether codepoint c is one of the codepoints of trimChars.
InTrimSet(trimChars, c) == \E k \in 1..Len(trimChars) : trimChars[k] = c

\* The length of the longest prefix of chars made of trim-set codepoints.
LeadingRun(trimChars, chars) ==
    LET runs == {k \in 0..Len(chars) :
                   \A i \in 1..k : InTrimSet(trimChars, chars[i])}
    IN  CHOOSE k \in runs : \A j \in runs : k >= j

\* The length of the longest suffix of chars, not reaching into its first
\* `from` codepoints, made of trim-set codepoints.
TrailingRun(trimChars, chars, from) ==
    LET n == Len(chars)
        runs == {k \in 0..(n - from) :
                   \A i \in (n - k + 1)..n : InTrimSet(trimChars, chars[i])}
    IN  CHOOSE k \in runs : \A j \in runs : k >= j

\* chars without its leading (lead) and trailing (trail) runs.
Kept(chars, lead, trail) == SubSeq(chars, lead + 1, Len(chars) - trail)

\* C6: on valid UTF-8, trim(trimSet, input) is the input without its maximal
\* leading and trailing runs of trim-set codepoints (ltrim: leading only,
\* rtrim: trailing only), counted by codepoint; an empty input gives an empty
\* result and an empty trim set gives the input.
C6_TrimRemovesMaximalRuns ==
    IsTrimCall =>
      LET lead == IF call.leftTrim
                  THEN LeadingRun(call.trimChars, call.chars) ELSE 0
          trail == IF call.rightTrim
                   THEN TrailingRun(call.trimChars, call.chars, lead) ELSE 0
          kept == Kept(call.chars, lead, trail)
          out == Bytes(call.input, ret)
      IN  /\ out = Flatten(kept)
          /\ \A i \in 1..lead : InTrimSet(call.trimChars, call.chars[i])
          /\ (call.leftTrim /\ kept # <<>>)
               => ~InTrimSet(call.trimChars, kept[1])
          /\ (call.rightTrim /\ kept # <<>>)
               => ~InTrimSet(call.trimChars, kept[Len(kept)])
          /\ ret.kind = "view"
               => ret.off = Len(Flatten(SubSeq(call.chars, 1, lead)))
          /\ call.input = <<>> => out = <<>>
          /\ call.trimStr = <<>> => out = call.input

\* trim of U+00E9 'a' U+1F600 with the trim set {U+1F600, U+00E9} is "a".
C6_Witness ==
    /\ IsTrimCall
    /\ call.leftTrim /\ call.rightTrim
    /\ call.trimChars = <<<<240, 159, 152, 128>>, <<195, 169>>>>
    /\ call.chars = <<<<195, 169>>, <<97>>, <<240, 159, 152, 128>>>>
    /\ ret = SetNoCopy(2, 1)

\* C7: on ASCII input and an ASCII trim set, callAscii returns the bytes the
\* general entry point returns, for trim, ltrim and rtrim.
C7_AsciiEntryAgreesWithGeneral ==
    IsTrimAsciiCall =>
      Bytes(call.input, ret)
        = Bytes(call.input,
                TrimCall(call.trimStr, call.input, call.leftTrim, call.rightTrim))

\* rtrim(" a", "a a") on the ASCII entry point: every byte is in the trim
\* set and the result is empty.
C7_Witness ==
    /\ IsTrimAsciiCall
    /\ ~call.leftTrim /\ call.rightTrim
    /\ call.trimStr = <<32, 97>>
    /\ call.input = <<97, 32, 97>>
    /\ ret = SetEmpty

\* The number of leading bytes 0x20 of s.
LeadingSpaces(s) ==
    LET runs == {k \in 0..Len(s) : \A i \in 1..k : s[i] = 32}
    IN  CHOOSE k \in runs : \A j \in runs : k >= j

\* The number of trailing bytes 0x20 of s after its first `from` bytes.
TrailingSpaces(s, from) ==
    LET runs == {k \in 0..(Len(s) - from) :
                   \A i \in (Len(s) - k + 1)..Len(s) : s[i] = 32}
    IN  CHOOSE k \in runs : \A j \in runs : k >= j

\* C8: on valid UTF-8, trim(s), ltrim(s) and rtrim(s) return the bytes of
\* trim(" ", s), ltrim(" ", s) and rtrim(" ", s): the input without its
\* leading and/or trailing bytes 0x20.
C8_SpaceFormAgreesWithGeneral ==
    IsTrimSpaceCall =>
      LET out == Bytes(call.input, ret)
          lead == IF call.leftTrim THEN LeadingSpaces(call.input) ELSE 0
          trail == IF call.rightTrim
                   THEN TrailingSpaces(call.input, lead) ELSE 0
      IN  /\ out = Bytes(call.input,
                         TrimCall(<<32>>, call.input,
                                  call.leftTrim, call.rightTrim))
          /\ out = Slice(call.input, lead, Len(call.input) - lead - trail)

\* trim(" U+00E9 ") = "U+00E9".
C8_Witness ==
    /\ IsTrimSpaceCall
    /\ call.leftTrim /\ call.rightTrim
    /\ call.input = <<32, 195, 169, 32>>
    /\ ret = SetNoCopy(1, 2)

\* The bytes of the general-form trim of s by trim set t in the given mode.
TrimBytes(t, s, leftTrim, rightTrim) ==
    Bytes(s, TrimCall(t, s, leftTrim, rightTrim))

\* C10: trim(t, s) = ltrim(t, rtrim(t, s)) = rtrim(t, ltrim(t, s)), and
\* trim, ltrim and rtrim are idempotent.
C10_TrimComposesAndIsIdempotent ==
    IsTrimCall =>
      LET t == call.trimStr
          s == call.input
          out == Bytes(s, ret)
      IN  /\ (call.leftTrim /\ call.rightTrim)
               => /\ out = TrimBytes(t, TrimBytes(t, s, FALSE, TRUE), TRUE, FALSE)
                  /\ out = TrimBytes(t, TrimBytes(t, s, TRUE, FALSE), FALSE, TRUE)
          /\ TrimBytes(t, out, call.leftTrim, call.rightTrim) = out

\* trim("a", "a a") = " ": a left and a right run are removed.
C10_Witness ==
    /\ IsTrimCall
    /\ call.leftTrim /\ call.rightTrim
    /\ call.trimStr = <<97>>
    /\ call.input = <<97, 32, 97>>
    /\ ret = SetNoCopy(1, 1)

(***************************************************************************)
(* Properties of substr.                                                   *)
(***************************************************************************)
IsSubstrCall == call.fn = "substr"

\* A substr invocation whose input is enumerated, on either entry point.
IsSubstrOnChars == IsSubstrCall /\ call.entry \in {"call", "callAscii"}

\* The first position of the window asked for: start counted from the end
\* when negative, 0 read as 1.
WindowStart(n, start) ==
    IF start = 0 THEN 1
    ELSE IF start < 0 THEN n + start + 1
    ELSE start

\* The positions p of 1..n with max(1, s) <= p <= min(n, s + length - 1), for
\* length > 0; p <= s + length - 1 is written p - (length - 1) <= s, which
\* stays within the int32_t range.
WindowPositions(n, s, length) ==
    {p \in 1..n : s <= p /\ p - (length - 1) <= s}

\* The codepoints of chars at the positions P (an interval), in order.
CodepointsAt(chars, P) ==
    IF P = {} THEN <<>>
    ELSE LET lo == CHOOSE p \in P : \A q \in P : p <= q
             hi == CHOOSE p \in P : \A q \in P : p >= q
         IN  SubSeq(chars, lo, hi)

\* C2: substr(s, start, length) is empty when length <= 0, and otherwise the
\* codepoints of s at the positions max(1, s') .. min(n, s' + length - 1),
\* on the general entry point and, for ASCII s, on the ASCII entry point;
\* so substr(s, 1, n) = s and substr(s, -k) is the last k codepoints.
C2_SubstrCodepointWindow ==
    IsSubstrOnChars =>
      LET n == Len(call.chars)
          out == Bytes(call.input, ret)
          P == WindowPositions(n, WindowStart(n, call.start), call.length)
      IN  /\ ret.kind # "trap"
          /\ call.length <= 0 => out = <<>>
          /\ call.length > 0 => out = Flatten(CodepointsAt(call.chars, P))
          /\ (call.start = 1 /\ call.length = n) => out = call.input
          /\ (call.start < 0 /\ call.start >= 0 - n /\ call.length = INT32_MAX)
               => out = Flatten(SubSeq(call.chars, n + call.start + 1, n))

\* substr of U+00E9 'a' U+1F600 from position -2, one codepoint long, is "a".
C2_Witness ==
    /\ IsSubstrCall
    /\ call.entry = "call"
    /\ call.chars = <<<<195, 169>>, <<97>>, <<240, 159, 152, 128>>>>
    /\ call.start = -2
    /\ call.length = 1
    /\ ret = SetNoCopy(2, 1)

\* C9: in substr no int32_t step outside the overflow-checked computation of
\* last overflows, for codepoint counts up to INT32_MAX; when that
\* computation overflows, last is the codepoint count and the call returns a
\* result.
C9_SubstrArithmeticInRange ==
    IsSubstrCall =>
      /\ locals.overflowed = {}
      /\ ret.kind # "trap"
      /\ locals.lastOverflow => locals.last = call.numCharacters

\* substr of an INT32_MAX-byte input from position 2 with length INT32_MAX:
\* start + (length - 1) overflows and the result is the rest of the input.
C9_Witness ==
    /\ IsSubstrCall
    /\ call.numCharacters = INT32_MAX
    /\ call.start = 2
    /\ call.length = INT32_MAX
    /\ locals.lastOverflow
    /\ ret = SetNoCopy(1, INT32_MAX - 1)

=============================================================================
